---- MODULE Spec2Model ----
(***************************************************************************)
(* A model of rmassets.py: discovery of Markdown documents, extraction of  *)
(* the asset basenames a document references, and removal of the files of  *)
(* the document's ".assets" directory that it does not reference.          *)
(*                                                                         *)
(* Strings are sequences of one-character strings, so that the string      *)
(* functions of the program (lower, strip, split, splitext, basename,      *)
(* sorted, the four regular expressions) are computed and not assumed.     *)
(***************************************************************************)
EXTENDS Integers, Sequences, FiniteSets, TLC

\* ------------------------------------------------------------ characters

\* Characters in code point order (what sorted() compares).
Upper ==
  << "A", "B", "C", "D", "E", "F", "G", "H", "I", "J", "K", "L", "M",
     "N", "O", "P", "Q", "R", "S", "T", "U", "V", "W", "X", "Y", "Z" >>
Lower ==
  << "a", "b", "c", "d", "e", "f", "g", "h", "i", "j", "k", "l", "m",
     "n", "o", "p", "q", "r", "s", "t", "u", "v", "w", "x", "y", "z" >>
Digits == << "0", "1", "2", "3", "4", "5", "6", "7", "8", "9" >>

CharOrder ==
  << "\n", " ", "!", "\"", "%", "'", "(", ")", "+", ",", "-", ".", "/" >>
    \o Digits \o << ":", "<", "=", ">" >> \o Upper \o << "[", "\\", "]", "_" >> \o Lower

\* ord(c), up to the order
OrdOf == [c \in {CharOrder[n] : n \in 1..Len(CharOrder)} |->
            CHOOSE n \in 1..Len(CharOrder) : CharOrder[n] = c]
Ord(c) == OrdOf[c]

\* str.lower(), one character
UpperChars == {Upper[n] : n \in 1..Len(Upper)}
LowerOf == [c \in UpperChars |-> Lower[CHOOSE n \in 1..Len(Upper) : Upper[n] = c]]
LowerChar(c) == IF c \in UpperChars THEN LowerOf[c] ELSE c

\* str.lower()
LowerStr(s) == [n \in 1..Len(s) |-> LowerChar(s[n])]

\* the characters str.strip(), str.split() and \s take for white space
Spaces == {" ", "\n"}
IsSpace(c) == c \in Spaces

\* \w of the regular expressions
WordChars ==
  {Upper[n] : n \in 1..Len(Upper)} \cup {Lower[n] : n \in 1..Len(Lower)}
    \cup {Digits[n] : n \in 1..Len(Digits)} \cup {"_"}

\* str.startswith / str.endswith
StartsWith(s, p) == Len(s) >= Len(p) /\ SubSeq(s, 1, Len(p)) = p
EndsWith(s, p) == Len(s) >= Len(p) /\ SubSeq(s, Len(s) - Len(p) + 1, Len(s)) = p

\* s[i..] starts with p
HasAt(s, i, p) == i >= 1 /\ i + Len(p) - 1 <= Len(s) /\ SubSeq(s, i, i + Len(p) - 1) = p

\* str.strip()
Strip(s) ==
  LET keep == {n \in 1..Len(s) : ~IsSpace(s[n])}
  IN  IF keep = {} THEN << >>
      ELSE SubSeq(s, CHOOSE n \in keep : \A m \in keep : n <= m,
                     CHOOSE n \in keep : \A m \in keep : n >= m)

\* str.count(c) for a one-character c
Count(s, c) == Cardinality({n \in 1..Len(s) : s[n] = c})

\* c in s
Contains(s, c) == \E n \in 1..Len(s) : s[n] = c

\* s.split()[0] for an s that holds a character that is not white space
FirstWord(s) ==
  LET b == CHOOSE n \in 1..Len(s) : ~IsSpace(s[n]) /\ \A m \in 1..(n - 1) : IsSpace(s[m])
      stop == {n \in b..Len(s) : IsSpace(s[n])}
      e == IF stop = {} THEN Len(s) ELSE (CHOOSE n \in stop : \A m \in stop : n <= m) - 1
  IN  SubSeq(s, b, e)

\* os.path.basename (posix): what follows the last "/"
Basename(s) ==
  LET sl == {n \in 1..Len(s) : s[n] = "/"}
  IN  IF sl = {} THEN s
      ELSE SubSeq(s, (CHOOSE n \in sl : \A m \in sl : n >= m) + 1, Len(s))

\* os.path.splitext (posix)[0]: the path without its extension. The extension
\* starts at the last "." of the last component, unless only "." precede it there.
SplitextBase(s) ==
  LET sl == {n \in 1..Len(s) : s[n] = "/"}
      first == IF sl = {} THEN 1 ELSE (CHOOSE n \in sl : \A m \in sl : n >= m) + 1
      dots == {n \in first..Len(s) : s[n] = "."}
      dot == IF dots = {} THEN 0 ELSE CHOOSE n \in dots : \A m \in dots : n >= m
  IN  IF dot = 0 \/ (\A n \in first..dot : s[n] = ".") THEN s
      ELSE SubSeq(s, 1, dot - 1)

\* s < t as Python compares strings: by code point at the first place they
\* differ, a proper prefix first
StrLess(s, t) ==
  LET d == {n \in 1..Len(s) : n <= Len(t) /\ s[n] # t[n]}
  IN  IF d = {} THEN Len(s) < Len(t)
      ELSE LET n == CHOOSE n \in d : \A m \in d : n <= m
           IN  Ord(s[n]) < Ord(t[n])

\* the number of items of xs that sort before position i's item: ties keep
\* their order, as the stable sort of sorted() does
SortRank(xs, i) ==
  Cardinality({j \in 1..Len(xs) :
                 StrLess(xs[j], xs[i]) \/ (xs[j] = xs[i] /\ j < i)})

\* sorted(xs)
Sorted(xs) ==
  [r \in 1..Len(xs) |-> xs[CHOOSE i \in 1..Len(xs) : SortRank(xs, i) = r - 1]]

\* ------------------------------------------------- extract_image_paths

\* the least n in i..Len(s) with s[n] = c, or 0
IndexFrom(s, i, c) ==
  LET at == {n \in i..Len(s) : s[n] = c}
  IN  IF at = {} THEN 0 ELSE CHOOSE n \in at : \A m \in at : n <= m

\* the end of the longest run s[i..e] of characters in C (i - 1: no run)
RunEnd(s, i, C) ==
  LET out == {n \in i..Len(s) : s[n] \notin C}
  IN  IF out = {} THEN Len(s) ELSE (CHOOSE n \in out : \A m \in out : n <= m) - 1

\* the end of the longest run s[i..e] of characters not in C (i - 1: no run)
RunEndNot(s, i, C) ==
  LET out == {n \in i..Len(s) : s[n] \in C}
  IN  IF out = {} THEN Len(s) ELSE (CHOOSE n \in out : \A m \in out : n <= m) - 1

NoMatch == [ok |-> FALSE, end |-> 0, group |-> << >>]

\* md_image_re, !\[[^\]]*\]\(([^)]+)\) , matched at position i
MdImageAt(s, i) ==
  IF ~HasAt(s, i, << "!", "[" >>) THEN NoMatch
  ELSE LET j == IndexFrom(s, i + 2, "]")
       IN  IF j = 0 \/ ~HasAt(s, j + 1, << "(" >>) THEN NoMatch
           ELSE LET k == IndexFrom(s, j + 2, ")")
                IN  IF k = 0 \/ k = j + 2 THEN NoMatch
                    ELSE [ok |-> TRUE, end |-> k, group |-> SubSeq(s, j + 2, k - 1)]

\* the body of the loop over md_image_re's matches: the name added to refs
MdImageTarget(group) ==
  LET raw0 == Strip(group)
      raw1 == IF StartsWith(raw0, << "<" >>) /\ EndsWith(raw0, << ">" >>)
              THEN Strip(SubSeq(raw0, 2, Len(raw0) - 1))
              ELSE raw0
      raw2 == IF Contains(raw1, " ") /\ Count(raw1, "\"") < 2 /\ Count(raw1, "'") < 2
              THEN FirstWord(raw1)
              ELSE raw1
  IN  Basename(raw2)

Quotes == {"\"", "'"}

\* what follows <img[^>]+ in html_img_re: src=["']([^"']+)["'] at position p
HtmlSrcAt(s, p) ==
  IF ~(p + 4 <= Len(s) /\ LowerStr(SubSeq(s, p, p + 3)) = << "s", "r", "c", "=" >>
       /\ s[p + 4] \in Quotes)
  THEN NoMatch
  ELSE LET e == RunEndNot(s, p + 5, Quotes)
       IN  IF e < p + 5 \/ e = Len(s) THEN NoMatch
           ELSE [ok |-> TRUE, end |-> e + 1, group |-> SubSeq(s, p + 5, e)]

\* html_img_re (re.IGNORECASE) matched at position i: [^>]+ takes the longest
\* run for which the rest matches
HtmlImgAt(s, i) ==
  IF ~(i + 3 <= Len(s) /\ LowerStr(SubSeq(s, i, i + 3)) = << "<", "i", "m", "g" >>)
  THEN NoMatch
  ELSE LET e == RunEndNot(s, i + 4, {">"})
           ps == {p \in (i + 5)..(e + 1) : HtmlSrcAt(s, p).ok}
       IN  IF ps = {} THEN NoMatch
           ELSE HtmlSrcAt(s, CHOOSE p \in ps : \A q \in ps : p >= q)

\* ref_def_re (re.MULTILINE), ^\s*\[[^\]]+\]:\s*(\S+) , matched at position i
RefDefAt(s, i) ==
  IF ~(i = 1 \/ (i <= Len(s) + 1 /\ i > 1 /\ s[i - 1] = "\n")) THEN NoMatch
  ELSE LET b == RunEnd(s, i, Spaces) + 1
       IN  IF ~HasAt(s, b, << "[" >>) THEN NoMatch
           ELSE LET j == IndexFrom(s, b + 1, "]")
                IN  IF j = 0 \/ j = b + 1 \/ ~HasAt(s, j + 1, << ":" >>) THEN NoMatch
                    ELSE LET g == RunEnd(s, j + 2, Spaces) + 1
                             e == RunEndNot(s, g, Spaces)
                         IN  IF e < g THEN NoMatch
                             ELSE [ok |-> TRUE, end |-> e, group |-> SubSeq(s, g, e)]

\* [\w\-./\\] and [\w.\- %()+,] of asset_like_re
AssetPathChars == WordChars \cup {"-", ".", "/", "\\"}
AssetNameChars == WordChars \cup {".", "-", " ", "%", "(", ")", "+", ","}

DotAssets == << ".", "a", "s", "s", "e", "t", "s" >>

\* what follows [\w\-./\\]+ in asset_like_re: \.assets[/\\]([\w.\- %()+,]+)\) at p
AssetTailAt(s, p) ==
  IF ~(HasAt(s, p, DotAssets) /\ p + 7 <= Len(s) /\ s[p + 7] \in {"/", "\\"})
  THEN NoMatch
  ELSE LET e == RunEnd(s, p + 8, AssetNameChars)
           cl == {n \in (p + 9)..e : s[n] = ")"}
       IN  IF cl = {} THEN NoMatch
           ELSE LET k == CHOOSE n \in cl : \A m \in cl : n >= m
                IN  [ok |-> TRUE, end |-> k, group |-> SubSeq(s, p + 8, k - 1)]

\* asset_like_re matched at position i
AssetLikeAt(s, i) ==
  LET e == RunEnd(s, i, AssetPathChars)
      ps == {p \in (i + 1)..(e + 1) : AssetTailAt(s, p).ok}
  IN  IF ps = {} THEN NoMatch
      ELSE AssetTailAt(s, CHOOSE p \in ps : \A q \in ps : p >= q)

\* re.finditer: the groups of the matches (at[k]: the match at position k) in a
\* text of n characters, leftmost first, each search resuming where the match
\* before it ended
FindIter(at, n) ==
  LET from[k \in 1..(n + 1)] ==
        IF k > n THEN {}
        ELSE IF at[k].ok THEN {at[k].group} \cup from[at[k].end + 1] ELSE from[k + 1]
  IN  from[1]

\* the names each of the four scans adds to refs
MdImageRefs(markdown) ==
  {MdImageTarget(g) :
     g \in FindIter([k \in 1..Len(markdown) |-> MdImageAt(markdown, k)], Len(markdown))}
HtmlImgRefs(markdown) ==
  {Basename(Strip(g)) :
     g \in FindIter([k \in 1..Len(markdown) |-> HtmlImgAt(markdown, k)], Len(markdown))}
RefDefRefs(markdown) ==
  {Basename(Strip(g)) :
     g \in FindIter([k \in 1..Len(markdown) |-> RefDefAt(markdown, k)], Len(markdown))}
AssetLikeRefs(markdown) ==
  {Basename(g) :
     g \in FindIter([k \in 1..Len(markdown) |-> AssetLikeAt(markdown, k)], Len(markdown))}

extract_image_paths(markdown) ==
  (MdImageRefs(markdown) \cup HtmlImgRefs(markdown) \cup RefDefRefs(markdown)
     \cup AssetLikeRefs(markdown)) \ {<< >>}

\* ------------------------------------------------------- the file system

\* Names of the model's file system. The working directory "." holds the
\* documents, their asset directories and one file that is no document.
Dot == << "." >>
A_md == << "a", ".", "m", "d" >>
A_MD == << "a", ".", "M", "D" >>
B_md == << "b", ".", "m", "d" >>
N_txt == << "n", ".", "t", "x", "t" >>
A_assets == << "a" >> \o DotAssets
B_assets == << "b" >> \o DotAssets
K_png == << "k", ".", "p", "n", "g" >>
UpperK_png == << "K", ".", "p", "n", "g" >>
S_png == << "s", ".", "p", "n", "g" >>
Sub == << "s", "u", "b" >>

DocNames == {A_md, A_MD, B_md}
AssetDirNames == {A_assets, B_assets}
\* the regular files and the subdirectory an asset directory may hold
FileNames == {K_png, S_png}
SubdirNames == {Sub}

\* the texts a document may hold
TextInline == << "!", "[", "x", "]", "(" >> \o A_assets \o << "/" >> \o K_png \o << ")" >>
TextHtml ==
  << "<", "i", "m", "g", " ", "s", "r", "c", "=", "\"" >> \o UpperK_png \o << "\"", ">" >>
TextIds == {"inline", "html"}
Content(id) == IF id = "inline" THEN TextInline ELSE TextHtml

\* a document: absent, a file that cannot be read or decoded, or a text
DocStates == {"absent", "unreadable"} \cup TextIds

\* an asset directory: absent, or its entries
Absent == [exists |-> FALSE, entries |-> {}]
Dir(entries) == [exists |-> TRUE, entries |-> entries]

\* os.path.join
Join(p, name) == p \o << "/" >> \o name

\* the path from the working directory a path string names
Resolve(p) == IF StartsWith(p, << ".", "/" >>) THEN SubSeq(p, 3, Len(p)) ELSE p

\* os.path.dirname of a resolved path ("" at the top level)
Dirname(r) ==
  LET sl == {n \in 1..Len(r) : r[n] = "/"}
  IN  IF sl = {} THEN << >> ELSE SubSeq(r, 1, (CHOOSE n \in sl : \A m \in sl : n >= m) - 1)

\* os.path.isdir
IsDir(fsys, p) ==
  LET r == Resolve(p)
  IN  \/ r = Dot
      \/ r \in AssetDirNames /\ fsys.dirs[r].exists
      \/ /\ Dirname(r) \in AssetDirNames
         /\ fsys.dirs[Dirname(r)].exists
         /\ Basename(r) \in fsys.dirs[Dirname(r)].entries \cap SubdirNames

\* os.path.isfile
IsFile(fsys, p) ==
  LET r == Resolve(p)
  IN  \/ r = N_txt /\ fsys.other
      \/ r \in DocNames /\ fsys.docs[r] # "absent"
      \/ /\ Dirname(r) \in AssetDirNames
         /\ fsys.dirs[Dirname(r)].exists
         /\ Basename(r) \in fsys.dirs[Dirname(r)].entries \cap FileNames

\* os.listdir of a directory, as a set: the order of its result is arbitrary
ListDir(fsys, p) ==
  LET r == Resolve(p)
  IN  IF r = Dot
      THEN {n \in {N_txt} : fsys.other} \cup {d \in DocNames : fsys.docs[d] # "absent"}
                   \cup {a \in AssetDirNames : fsys.dirs[a].exists}
      ELSE IF r \in AssetDirNames THEN fsys.dirs[r].entries
      ELSE {}

\* os.remove succeeds on an existing regular file that the system lets go
CanRemove(fsys, lck, fp) == IsFile(fsys, fp) /\ Basename(fp) \notin lck

\* a removal that also removes the directory it empties
RemovedPruning(fsys, fp) ==
  LET r == Resolve(fp)
      left == fsys.dirs[Dirname(r)].entries \ {Basename(r)}
  IN  [fsys EXCEPT !.dirs[Dirname(r)] = IF left = {} THEN Absent ELSE Dir(left)]

\* the file system after os.remove(fp) succeeded
Removed(fsys, fp) ==
  LET r == Resolve(fp)
  IN  IF r = N_txt THEN [fsys EXCEPT !.other = FALSE]
      ELSE IF r \in DocNames THEN [fsys EXCEPT !.docs[r] = "absent"]
      ELSE [fsys EXCEPT !.dirs[Dirname(r)].entries = @ \ {Basename(r)}]

\* the sequences that list the set S once each
Perms(S) == {q \in [1..Cardinality(S) -> S] : \A x \in S : \E n \in 1..Cardinality(S) : q[n] = x}

\* ------------------------------------------------------------ the program

VARIABLES
  fs,             \* the file system: docs, dirs, other (n.txt is there)
  locked,         \* the names of the files whose removal the system refuses
  args,           \* argparse's result: paths, dry_run, yes
  pc,             \* where main is: "start", "loop", "done"
  md_files,       \* main's md_files
  pos,              \* the position in md_files of main's loop
  total_deleted,  \* main's total_deleted
  rc,             \* main's return value, -1 while it runs
  run,            \* 1: the first invocation, 2: a second one with the same arguments
  fs0,            \* the file system before the first invocation
  fsRun,          \* the file system when the current invocation started
  last,           \* the locals of the latest call of process_markdown
  xform,          \* the target of the inline image given to extract_image_paths
  xrefs           \* extract_image_paths' result for it, once it is called

vars ==
  << fs, locked, args, pc, md_files, pos, total_deleted, rc, run, fs0, fsRun, last, xform, xrefs >>

\* the longest args.paths, the most entries of an asset directory
MaxPaths == 2
MaxEntries == 2

\* the path arguments: the working directory, and a document that may be
\* missing
PathArgs == {Dot, B_md}

\* the lines the operator may type at the prompt
Answers ==
  { << "y" >>, << " ", "Y", "e", "s", " " >>, << "Y", "E", "S" >>, << >>, << "n" >>,
    << "y", "e", "s", "!" >>, << "y", " ", "e", "s" >> }

\* find_markdown_files: the documents of one path
MarkdownOf(fsys, p) ==
  IF IsDir(fsys, p)
  THEN {Join(p, name) : name \in {n \in ListDir(fsys, p) : EndsWith(LowerStr(n), << ".", "m", "d" >>)}}
  ELSE IF IsFile(fsys, p) /\ EndsWith(LowerStr(p), << ".", "m", "d" >>) THEN {p}
  ELSE {}

\* some sequence that lists the set S once each
RECURSIVE SeqOf(_)
SeqOf(S) == IF S = {} THEN << >> ELSE LET x == CHOOSE x \in S : TRUE IN << x >> \o SeqOf(S \ {x})

\* find_markdown_files: results before it is sorted. Equal strings are the same
\* item, so the order os.listdir gave does not show in the sorted list.
RECURSIVE Results(_, _)
Results(fsys, paths) ==
  IF paths = << >> THEN << >>
  ELSE SeqOf(MarkdownOf(fsys, Head(paths))) \o Results(fsys, Tail(paths))

find_markdown_files(fsys, paths) == Sorted(Results(fsys, paths))

\* process_markdown: asset_dir of md_path
AssetDir(md_path) == SplitextBase(md_path) \o DotAssets

\* process_markdown: all_files is some order of these
AllFiles(fsys, asset_dir) == {f \in ListDir(fsys, asset_dir) : IsFile(fsys, Join(asset_dir, f))}

\* a difference that compares the names without their case
UnusedIgnoringCase(all_files, referenced) ==
  SelectSeq(all_files, LAMBDA f : LowerStr(f) \notin {LowerStr(r) : r \in referenced})

\* process_markdown: unused
Unused(all_files, referenced) == SelectSeq(all_files, LAMBDA f : f \notin referenced)

\* a test that takes every answer that begins with y
AffirmativePrefix(ans) == StartsWith(LowerStr(Strip(ans)), << "y" >>)

\* process_markdown: the answer lets the deletion go on
Affirmative(ans) == LowerStr(Strip(ans)) \in {<< "y" >>, << "y", "e", "s" >>}

\* a choice that looks at assume_yes first
ModeYesFirst(a) == IF a.yes THEN "delete" ELSE IF a.dry_run THEN "dry_run" ELSE "ask"

\* process_markdown: what follows the report of the unused files
Mode(a) == IF a.dry_run THEN "dry_run" ELSE IF ~a.yes THEN "ask" ELSE "delete"

\* process_markdown: one round of the deletion loop
DeleteOne(st, lck, fp) ==
  IF CanRemove(st.fs, lck, fp)
  THEN [fs |-> Removed(st.fs, fp), deleted |-> st.deleted + 1,
        attempts |-> Append(st.attempts, << fp, TRUE >>)]
  ELSE [st EXCEPT !.attempts = Append(@, << fp, FALSE >>)]

\* a deletion loop that stops at the first removal that fails
RECURSIVE DeleteFromAbort(_, _, _, _, _)
DeleteFromAbort(unused, k, asset_dir, lck, st) ==
  IF k > Len(unused) THEN st
  ELSE LET nxt == DeleteOne(st, lck, Join(asset_dir, unused[k]))
       IN  IF nxt.deleted = st.deleted THEN nxt
           ELSE DeleteFromAbort(unused, k + 1, asset_dir, lck, nxt)

\* process_markdown: the deletion loop over unused[k..]
RECURSIVE DeleteFrom(_, _, _, _, _)
DeleteFrom(unused, k, asset_dir, lck, st) ==
  IF k > Len(unused) THEN st
  ELSE DeleteFrom(unused, k + 1, asset_dir, lck, DeleteOne(st, lck, Join(asset_dir, unused[k])))

DeleteLoop(unused, asset_dir, lck, fsys) ==
  DeleteFrom(unused, 1, asset_dir, lck, [fs |-> fsys, deleted |-> 0, attempts |-> << >>])

\* the document main's loop is at, and what process_markdown computes for it
Md == md_files[pos]
Readable == fs.docs[Resolve(Md)] \in TextIds
\* process_markdown: referenced, for each text of the model
RefsOfText == [id \in TextIds |-> extract_image_paths(Content(id))]
Referenced == RefsOfText[fs.docs[Resolve(Md)]]

NoCall ==
  [md |-> << >>, outcome |-> "none", asset_dir |-> << >>, referenced |-> {},
   all_files |-> << >>, unused |-> << >>, asked |-> FALSE, ans |-> << >>,
   attempts |-> << >>, deleted |-> 0]

\* a loop body without the try: what process_markdown raises ends main
MainIterNoCatch(raised, deleted) ==
  /\ total_deleted' = IF raised THEN total_deleted ELSE total_deleted + deleted
  /\ pos' = pos + 1
  /\ pc' = IF raised THEN "done" ELSE "loop"
  /\ rc' = IF raised THEN 1 ELSE rc
  /\ UNCHANGED << locked, args, md_files, run, fs0, fsRun, xform, xrefs >>

\* main, the body of its loop: process_markdown returned deleted, or raised
MainIter(raised, deleted) ==
  /\ total_deleted' = IF raised THEN total_deleted ELSE total_deleted + deleted
  /\ pos' = pos + 1
  /\ pc' = "loop"
  /\ UNCHANGED << locked, args, md_files, rc, run, fs0, fsRun, xform, xrefs >>

InLoop == pc = "loop" /\ pos <= Len(md_files)

\* main up to its loop
Start ==
  /\ pc = "start"
  /\ md_files' = find_markdown_files(fs, args.paths)
  /\ IF md_files' = << >> THEN pc' = "done" /\ rc' = 1 ELSE pc' = "loop" /\ rc' = rc
  /\ pos' = 1
  /\ total_deleted' = 0
  /\ UNCHANGED << fs, locked, args, run, fs0, fsRun, last, xform, xrefs >>

\* read_text raises
ProcessReadError ==
  /\ InLoop
  /\ ~Readable
  /\ last' = [NoCall EXCEPT !.md = Md, !.outcome = "read_error"]
  /\ fs' = fs
  /\ MainIter(TRUE, 0)

\* no asset directory
ProcessNoAssetDir ==
  /\ InLoop
  /\ Readable
  /\ ~IsDir(fs, AssetDir(Md))
  /\ last' = [NoCall EXCEPT !.md = Md, !.outcome = "no_dir", !.asset_dir = AssetDir(Md),
                            !.referenced = Referenced]
  /\ fs' = fs
  /\ MainIter(FALSE, 0)

\* no files in the asset directory, no unused file, or a dry run
ProcessNothingToDo ==
  /\ InLoop
  /\ Readable
  /\ IsDir(fs, AssetDir(Md))
  /\ \E all_files \in Perms(AllFiles(fs, AssetDir(Md))) :
       LET unused == Unused(all_files, Referenced)
       IN  /\ all_files = << >> \/ unused = << >> \/ Mode(args) = "dry_run"
           /\ last' = [NoCall EXCEPT !.md = Md, !.asset_dir = AssetDir(Md),
                         !.referenced = Referenced, !.all_files = all_files,
                         !.unused = unused,
                         !.outcome = IF all_files = << >> THEN "no_files"
                                     ELSE IF unused = << >> THEN "no_unused"
                                     ELSE "dry_run"]
  /\ fs' = fs
  /\ MainIter(FALSE, 0)

\* the operator is asked and does not agree, or input() raises (end of input)
ProcessNotConfirmed ==
  /\ InLoop
  /\ Readable
  /\ IsDir(fs, AssetDir(Md))
  /\ Mode(args) = "ask"
  /\ \E all_files \in Perms(AllFiles(fs, AssetDir(Md))) :
       LET unused == Unused(all_files, Referenced)
           asked == [NoCall EXCEPT !.md = Md, !.asset_dir = AssetDir(Md),
                       !.referenced = Referenced, !.all_files = all_files,
                       !.unused = unused, !.asked = TRUE]
       IN  /\ unused # << >>
           /\ \/ \E ans \in Answers :
                   /\ ~Affirmative(ans)
                   /\ last' = [asked EXCEPT !.outcome = "aborted", !.ans = ans]
                   /\ MainIter(FALSE, 0)
              \/ /\ last' = [asked EXCEPT !.outcome = "input_error"]
                 /\ MainIter(TRUE, 0)
  /\ fs' = fs

\* the deletion loop runs: --yes, or the operator agreed
ProcessDelete ==
  /\ InLoop
  /\ Readable
  /\ IsDir(fs, AssetDir(Md))
  /\ Mode(args) # "dry_run"
  /\ \E all_files \in Perms(AllFiles(fs, AssetDir(Md))) :
     \E ans \in IF Mode(args) = "delete" THEN {<< >>} ELSE {a \in Answers : Affirmative(a)} :
       LET unused == Unused(all_files, Referenced)
           st == DeleteLoop(unused, AssetDir(Md), locked, fs)
       IN  /\ unused # << >>
           /\ fs' = st.fs
           /\ last' = [md |-> Md, outcome |-> "deleted", asset_dir |-> AssetDir(Md),
                       referenced |-> Referenced, all_files |-> all_files,
                       unused |-> unused, asked |-> Mode(args) = "ask", ans |-> ans,
                       attempts |-> st.attempts, deleted |-> st.deleted]
           /\ MainIter(FALSE, st.deleted)

\* an end of main that returns 1 when nothing was deleted
FinishFailing ==
  /\ pc = "loop"
  /\ pos > Len(md_files)
  /\ pc' = "done"
  /\ rc' = IF total_deleted = 0 THEN 1 ELSE 0
  /\ UNCHANGED << fs, locked, args, md_files, pos, total_deleted, run, fs0, fsRun, last, xform, xrefs >>

\* main after its loop
Finish ==
  /\ pc = "loop"
  /\ pos > Len(md_files)
  /\ pc' = "done"
  /\ rc' = 0
  /\ UNCHANGED << fs, locked, args, md_files, pos, total_deleted, run, fs0, fsRun, last, xform, xrefs >>

\* the operator runs the program a second time with the same arguments (the
\* runs with --yes, whose second run is the one a property is about)
Rerun ==
  /\ pc = "done"
  /\ run = 1
  /\ args.yes
  /\ run' = 2
  /\ pc' = "start"
  /\ rc' = -1
  /\ md_files' = << >>
  /\ pos' = 1
  /\ total_deleted' = 0
  /\ fsRun' = fs
  /\ last' = NoCall
  /\ UNCHANGED << fs, locked, args, fs0, xform, xrefs >>

\* the sequences over S of 1..n items
SeqsUpTo(S, n) == UNION {[1..k -> S] : k \in 1..n}

\* the asset directories of the model: a.assets may hold any entries,
\* b.assets the one file k.png
DirStates(a) ==
  IF a = A_assets
  THEN {Absent} \cup {Dir(e) : e \in {x \in SUBSET (FileNames \cup SubdirNames) :
                                        Cardinality(x) <= MaxEntries}}
  ELSE {Absent, Dir({K_png})}

\* the documents of the model: the inline text, which names a.assets, is
\* a.md's
DocStatesOf(d) == IF d = A_md THEN DocStates ELSE DocStates \ {"inline"}

NotCalled == [called |-> FALSE, refs |-> {}]

NoForm ==
  [path |-> << >>, wrap |-> "plain", quote |-> "none", words |-> 0, alt |-> << >>,
   after |-> << >>]

Init ==
  /\ \E docs \in {d \in [DocNames -> DocStates] : \A n \in DocNames : d[n] \in DocStatesOf(n)} :
     \E dirs \in {d \in [AssetDirNames -> UNION {DirStates(a) : a \in AssetDirNames}] :
                    \A a \in AssetDirNames : d[a] \in DirStates(a)} :
       fs = [docs |-> docs, dirs |-> dirs, other |-> TRUE]
  /\ locked \in {{}, {S_png}}
  /\ \E paths \in SeqsUpTo(PathArgs, MaxPaths), dry_run \in BOOLEAN, yes \in BOOLEAN :
       args = [paths |-> paths, dry_run |-> dry_run, yes |-> yes]
  /\ pc = "start"
  /\ md_files = << >>
  /\ pos = 1
  /\ total_deleted = 0
  /\ rc = -1
  /\ run = 1
  /\ fs0 = fs
  /\ fsRun = fs
  /\ last = NoCall
  /\ xform = NoForm
  /\ xrefs = NotCalled

Next ==
  \/ Start
  \/ ProcessReadError
  \/ ProcessNoAssetDir
  \/ ProcessNothingToDo
  \/ ProcessNotConfirmed
  \/ ProcessDelete
  \/ Finish
  \/ Rerun

Spec == Init /\ [][Next]_vars

\* ------------------------------------- extract_image_paths on inline images

\* the most words of a title
MaxTitleWords == 2

TitleWords == << << "t" >>, << "u" >>, << "v" >>, << "w" >> >>

\* the first n title words, a space between them
RECURSIVE Words(_)
Words(n) == IF n = 1 THEN TitleWords[1] ELSE Words(n - 1) \o << " " >> \o TitleWords[n]

\* a title of n words: as it is, or in double or single quotes
Title(quote, n) ==
  IF quote = "none" THEN Words(n)
  ELSE IF quote = "double" THEN << "\"" >> \o Words(n) \o << "\"" >>
  ELSE << "'" >> \o Words(n) \o << "'" >>

\* the targets: path, <path>, or path, a space and a title
Forms ==
  [path : {K_png, Join(A_assets, K_png), Join(Dot, Join(A_assets, UpperK_png))},
   wrap : {"plain", "angle"},
   quote : {"none"}, words : {0},
   alt : {<< >>, << "x" >>}, after : {<< >>, << "\n", "b" >>}]
  \cup
  [path : {K_png, Join(A_assets, K_png), Join(Dot, Join(A_assets, UpperK_png))},
   wrap : {"plain"},
   quote : {"none", "double", "single"}, words : 1..MaxTitleWords,
   alt : {<< >>, << "x" >>}, after : {<< >>, << "\n", "b" >>}]

Target(f) ==
  IF f.wrap = "angle" THEN << "<" >> \o f.path \o << ">" >>
  ELSE IF f.words = 0 THEN f.path
  ELSE f.path \o << " " >> \o Title(f.quote, f.words)

\* the document text: ![alt](target), and what follows it
ImageText(f) == << "!", "[" >> \o f.alt \o << "]", "(" >> \o Target(f) \o << ")" >> \o f.after

EmptyFs ==
  [docs |-> [d \in DocNames |-> "absent"], dirs |-> [a \in AssetDirNames |-> Absent],
   other |-> TRUE]

InitExtract ==
  /\ xform \in Forms
  /\ xrefs = NotCalled
  /\ fs = EmptyFs
  /\ locked = {}
  /\ args = [paths |-> << Dot >>, dry_run |-> FALSE, yes |-> TRUE]
  /\ pc = "done"
  /\ md_files = << >>
  /\ pos = 1
  /\ total_deleted = 0
  /\ rc = 1
  /\ run = 2
  /\ fs0 = fs
  /\ fsRun = fs
  /\ last = NoCall

\* extract_image_paths is called on the text
Extract ==
  /\ ~xrefs.called
  /\ xrefs' = [called |-> TRUE, refs |-> extract_image_paths(ImageText(xform))]
  /\ UNCHANGED << fs, locked, args, pc, md_files, pos, total_deleted, rc, run, fs0, fsRun,
                  last, xform >>

SpecExtract == InitExtract /\ [][Extract]_vars

\* ------------------------------------------------------------ properties

\* the regular files and the directories of a file system
RegularFiles(fsys) ==
  {x \in AssetDirNames \X FileNames : fsys.dirs[x[1]].exists /\ x[2] \in fsys.dirs[x[1]].entries}
Directories(fsys) ==
  {<< d >> : d \in {x \in AssetDirNames : fsys.dirs[x].exists}}
    \cup {x \in AssetDirNames \X SubdirNames :
            fsys.dirs[x[1]].exists /\ x[2] \in fsys.dirs[x[1]].entries}

\* a step of main's loop: process_markdown was called for Md
CallStep == pc = "loop" /\ pos' = pos + 1

Range(q) == {q[n] : n \in 1..Len(q)}

\* the directory a document path is paired with: the path without its
\* extension, ".assets" appended, from the working directory
PairedDir(md_path) == Resolve(SplitextBase(md_path) \o DotAssets)

\* C1: every step that changes the file system is a step of main's loop that
\* removes regular files, top-level entries of the asset directory of the
\* document being processed, and nothing else: the documents, n.txt, every
\* directory (an emptied asset directory too) and every other file stay, and
\* nothing appears.
C1_OnlyAssetFilesRemoved ==
  [][fs' # fs =>
       /\ CallStep
       /\ fs'.docs = fs.docs
       /\ fs'.other = fs.other
       /\ Directories(fs') = Directories(fs)
       /\ RegularFiles(fs') \subseteq RegularFiles(fs)
       /\ \A x \in RegularFiles(fs) \ RegularFiles(fs') : x[1] = PairedDir(Md)]_vars

\* C1, its case: an asset directory whose files were all removed is still
\* there, and so is its subdirectory
C1_Witness ==
  \E a \in AssetDirNames :
     /\ fs0.dirs[a].entries \cap FileNames # {}
     /\ fs.dirs[a].exists
     /\ fs.dirs[a].entries = {Sub}

\* C2: with dry_run set nothing is removed, no call returns anything but 0 or
\* asks for confirmation, whatever assume_yes is, and the total is 0.
C2_DryRunKeepsAll ==
  args.dry_run =>
     /\ fs = fs0
     /\ total_deleted = 0
     /\ last.deleted = 0
     /\ last.attempts = << >>
     /\ ~last.asked

\* C2, its case: a dry run with --yes that reported unused files and ended
C2_Witness ==
  /\ args.dry_run /\ args.yes
  /\ pc = "done" /\ rc = 0
  /\ last.outcome = "dry_run"
  /\ last.unused # << >>

\* C3: in each call that lists the asset directory, unused is, without
\* repetition, the regular top-level files of the document's asset directory
\* that are not, character for character, in the reference set extracted
\* from its text; the files that are in it are still there after the call.
C3_UnusedIsDifference ==
  [][(CallStep /\ last'.outcome \notin {"read_error", "no_dir"}) =>
       LET d == PairedDir(Md)
           refs == RefsOfText[fs.docs[Resolve(Md)]]
           files == fs.dirs[d].entries \cap FileNames
       IN  /\ Range(last'.unused) = files \ refs
           /\ Len(last'.unused) = Cardinality(files \ refs)
           /\ \A f \in files \cap refs : f \in fs'.dirs[d].entries]_vars

\* C3, its case: the text references K.png, and k.png of its asset
\* directory was unused and removed
C3_Witness ==
  /\ last.outcome = "deleted"
  /\ UpperK_png \in last.referenced
  /\ K_png \in Range(last.unused)
  /\ K_png \notin fs.dirs[Resolve(last.asset_dir)].entries

\* the answers that confirm: stripped and lower-cased, "y" or "yes"
Confirms(ans) == LowerStr(Strip(ans)) \in {<< "y" >>, << "y", "e", "s" >>}

\* C4: without dry_run and assume_yes, a call removes files only after an
\* answer that confirms, and after any other answer it removes nothing and
\* returns 0; with assume_yes and without dry_run no call asks.
C4_ConfirmationGuardsDeletion ==
  [][CallStep =>
       /\ (~args.dry_run /\ ~args.yes) =>
            /\ fs' # fs => last'.asked /\ Confirms(last'.ans)
            /\ (last'.asked /\ ~Confirms(last'.ans)) =>
                 fs' = fs /\ total_deleted' = total_deleted /\ last'.deleted = 0
            /\ last'.unused # << >> => last'.asked
       /\ (args.yes /\ ~args.dry_run) =>
            /\ ~last'.asked
            /\ last'.unused # << >> => last'.outcome = "deleted"]_vars

\* C4, its case: the operator answered " Yes " and a file was removed
C4_Witness ==
  /\ ~args.dry_run /\ ~args.yes
  /\ last.outcome = "deleted"
  /\ last.ans = << " ", "Y", "e", "s", " " >>
  /\ last.deleted > 0

\* the documents of md_files that reference f in their asset directory a
Referencing(a, f) ==
  {n \in 1..Len(md_files) :
     /\ fs0.docs[Resolve(md_files[n])] \in TextIds
     /\ PairedDir(md_files[n]) = a
     /\ f \in RefsOfText[fs0.docs[Resolve(md_files[n])]]}

\* C5: after a second run with --yes the total is 0, the second run removed
\* nothing, and no file that a document references in its asset directory
\* was removed by either run.
C5_SecondRunRemovesNothing ==
  (pc = "done" /\ run = 2 /\ args.yes /\ ~args.dry_run) =>
     /\ total_deleted = 0
     /\ fs = fsRun
     /\ \A x \in RegularFiles(fs0) \ RegularFiles(fs) : Referencing(x[1], x[2]) = {}

\* C6: a call that raises changes neither the file system nor the total, and
\* the loop goes on with the next document; main ends only after the last one.
C6_FailureAbandonsOneDocument ==
  /\ [][(CallStep /\ last'.outcome \in {"read_error", "input_error"}) =>
          /\ fs' = fs
          /\ total_deleted' = total_deleted
          /\ md_files' = md_files
          /\ pc' = "loop"
          /\ rc' = rc]_vars
  /\ []((pc = "done" /\ md_files # << >>) => pos = Len(md_files) + 1 /\ rc = 0)

\* C6, its case: a document could not be read and the next one had files
\* removed
C6_Witness ==
  /\ pos >= 3
  /\ pos <= Len(md_files) + 1
  /\ fs.docs[Resolve(md_files[pos - 2])] = "unreadable"
  /\ last.outcome = "deleted"
  /\ last.md = md_files[pos - 1]
  /\ total_deleted > 0

\* C7: the deletion loop tries every file of unused, in order, whether or
\* not a removal before it failed; the call returns the number of removals
\* that succeeded; total_deleted is the number of files removed in the run.
C7_EveryFileTriedAndCounted ==
  /\ last.outcome = "deleted" =>
       /\ Len(last.attempts) = Len(last.unused)
       /\ \A n \in 1..Len(last.unused) :
            last.attempts[n][1] = Join(last.asset_dir, last.unused[n])
       /\ last.deleted = Cardinality({n \in 1..Len(last.attempts) : last.attempts[n][2]})
       /\ \A n \in 1..Len(last.attempts) :
            last.attempts[n][2] <=>
              last.unused[n] \notin fs.dirs[Resolve(last.asset_dir)].entries
  /\ total_deleted = Cardinality(RegularFiles(fsRun)) - Cardinality(RegularFiles(fs))

\* C7, its case: the first removal failed and the second succeeded
C7_Witness ==
  /\ last.outcome = "deleted"
  /\ Len(last.attempts) = 2
  /\ ~last.attempts[1][2]
  /\ last.attempts[2][2]
  /\ total_deleted = 1

\* C8: main returns 1 exactly when find_markdown_files returns no document,
\* and then nothing was processed or removed; otherwise it returns 0.
C8_ExitCode ==
  pc = "done" =>
     /\ rc \in {0, 1}
     /\ rc = 1 <=> \A p \in Range(args.paths) : MarkdownOf(fsRun, p) = {}
     /\ rc = 1 => fs = fsRun /\ last = NoCall /\ total_deleted = 0

\* C8, its case: documents were found, none could be read, and main
\* returned 0
C8_Witness ==
  /\ pc = "done" /\ rc = 0
  /\ Len(md_files) >= 2
  /\ \A n \in 1..Len(md_files) : fs.docs[Resolve(md_files[n])] = "unreadable"

\* C9: for a target path, <path> or path, a space and a title, the reference
\* set holds the basename of path, so that a file of that name is not unused.
C9_TitleIsDropped ==
  xrefs.called =>
     /\ Basename(xform.path) \in xrefs.refs
     /\ Unused(<< Basename(xform.path) >>, xrefs.refs) = << >>

\* C9 where the title is not in quotes (this holds)
C9_UnquotedTitleIsDropped ==
  (xrefs.called /\ xform.quote = "none") => Basename(xform.path) \in xrefs.refs

\* C10: a call never removes a file that another document of md_files
\* references in its own asset directory.
C10_NoRemovalOfAnothersFile ==
  [][CallStep =>
       \A x \in RegularFiles(fs) \ RegularFiles(fs') :
          \A n \in Referencing(x[1], x[2]) : Resolve(md_files[n]) = Resolve(Md)]_vars

====
